---- MODULE Spec2Model ----
(***************************************************************************)
(* Model of krog_company_ics/krogoco_ics.py: the time-expression parser    *)
(* (_parse_time_range), the calendar extractor (KrogocoIcs.scrape_events)  *)
(* and the mapping of events to calendar entries (_build_calendar).        *)
(*                                                                         *)
(* Strings are sequences of one-character strings.  Dates are triples      *)
(* <<year, month, day>>; datetimes are <<year, month, day, hour, minute>>. *)
(***************************************************************************)
EXTENDS Integers, Sequences, FiniteSets, TLC

\* ------------------------------------------------------------------------
\* Bounds of the model
\* ------------------------------------------------------------------------

\* Longest heading sequence (h3s) handed to one scrape.
MaxNodes == 4

\* Longest title, in tokens of TitleTokens, handed to the parser.
MaxTokens == 4

\* ------------------------------------------------------------------------
\* Python values
\* ------------------------------------------------------------------------

\* Python's None where a string (a time) is expected.
None == <<"None">>

\* Python's None where a date is expected (current_date).
NoDate == <<>>

\* Python's None where a month number is expected (prev_month).
NoMonth == -1

\* The exception date(...) and datetime(...) raise on impossible values.
ValueError == <<"ValueError">>

Digit == {"0", "1", "2", "3", "4", "5", "6", "7", "8", "9"}

DigitVal == [c \in Digit |->
    CASE c = "0" -> 0 [] c = "1" -> 1 [] c = "2" -> 2 [] c = "3" -> 3
      [] c = "4" -> 4 [] c = "5" -> 5 [] c = "6" -> 6 [] c = "7" -> 7
      [] c = "8" -> 8 [] c = "9" -> 9]

DigitChar == <<"0", "1", "2", "3", "4", "5", "6", "7", "8", "9">>

\* s[p], or the empty string past either end of s.
CharAt(s, p) == IF p \in 1..Len(s) THEN s[p] ELSE ""

IsDigitAt(s, p) == CharAt(s, p) \in Digit

\* int(s) for a string of decimal digits.
RECURSIVE IntOf(_)
IntOf(s) ==
    IF Len(s) = 0 THEN 0
    ELSE 10 * IntOf(SubSeq(s, 1, Len(s) - 1)) + DigitVal[s[Len(s)]]

\* str(n) for n >= 0.
RECURSIVE StrOf(_)
StrOf(n) ==
    IF n < 10 THEN <<DigitChar[n + 1]>>
    ELSE StrOf(n \div 10) \o <<DigitChar[(n % 10) + 1]>>

\* f"{n:02d}": decimal, padded with zeros to at least two digits.
Format02d(n) == IF n < 10 THEN <<"0">> \o StrOf(n) ELSE StrOf(n)

\* s.split(":") for a string with exactly one colon gives <<before, after>>;
\* the index of the first colon (0 when there is none).
ColonIndex(s) ==
    LET ps == {p \in 1..Len(s) : s[p] = ":"}
    IN  IF ps = {} THEN 0 ELSE CHOOSE p \in ps : \A q \in ps : p <= q

\* ------------------------------------------------------------------------
\* datetime.date
\* ------------------------------------------------------------------------

IsLeap(y) == (y % 4 = 0) /\ ((y % 100 # 0) \/ (y % 400 = 0))

DaysInMonth(y, m) ==
    IF m = 2 THEN (IF IsLeap(y) THEN 29 ELSE 28)
    ELSE IF m \in {4, 6, 9, 11} THEN 30 ELSE 31

\* date(y, m, d) raises ValueError unless this holds.
ValidDate(y, m, d) ==
    /\ y \in 1..9999
    /\ m \in 1..12
    /\ d >= 1 /\ d <= DaysInMonth(y, m)

\* a < b for dates.
DateLT(a, b) ==
    \/ a[1] < b[1]
    \/ a[1] = b[1] /\ a[2] < b[2]
    \/ a[1] = b[1] /\ a[2] = b[2] /\ a[3] < b[3]

DateLE(a, b) == a = b \/ DateLT(a, b)

\* d - timedelta(days=1)
MinusOneDay(d) ==
    IF d[3] > 1 THEN <<d[1], d[2], d[3] - 1>>
    ELSE IF d[2] > 1 THEN <<d[1], d[2] - 1, DaysInMonth(d[1], d[2] - 1)>>
    ELSE <<d[1] - 1, 12, 31>>

\* d + timedelta(days=1)
PlusOneDay(d) ==
    IF d[3] < DaysInMonth(d[1], d[2]) THEN <<d[1], d[2], d[3] + 1>>
    ELSE IF d[2] < 12 THEN <<d[1], d[2] + 1, 1>>
    ELSE <<d[1] + 1, 1, 1>>

RECURSIVE DaysBeforeMonth(_, _)
DaysBeforeMonth(y, m) ==
    IF m <= 1 THEN 0 ELSE DaysBeforeMonth(y, m - 1) + DaysInMonth(y, m - 1)

\* date.toordinal(): the proleptic Gregorian day number.
ToOrdinal(d) ==
    LET y == d[1] - 1
    IN  y * 365 + (y \div 4) - (y \div 100) + (y \div 400)
          + DaysBeforeMonth(d[1], d[2]) + d[3]

\* ------------------------------------------------------------------------
\* _last_day_of_month
\* ------------------------------------------------------------------------

\* Variant: the first day of the next month, the subtraction of a day lost.
LastDayOfMonthNoSubtract(d, months_ahead) ==
    LET month0 == d[2] + months_ahead
        year == d[1] + ((month0 - 1) \div 12)
        month == ((month0 - 1) % 12) + 1
    IN  IF month = 12 THEN <<year + 1, 1, 1>> ELSE <<year, month + 1, 1>>

LastDayOfMonth(d, months_ahead) ==
    LET month0 == d[2] + months_ahead
        year == d[1] + ((month0 - 1) \div 12)
        month == ((month0 - 1) % 12) + 1
    IN  IF month = 12 THEN MinusOneDay(<<year + 1, 1, 1>>)
        ELSE MinusOneDay(<<year, month + 1, 1>>)

\* ------------------------------------------------------------------------
\* _normalize_time and _parse_time_range
\* ------------------------------------------------------------------------

\* t.replace(".", ":")
NormalizeTime(t) == [k \in 1..Len(t) |-> IF t[k] = "." THEN ":" ELSE t[k]]

\* No match of a pattern (re.search returned None).
NoMatch == <<>>

IsSpace(c) == c = " "

\* U+2013 EN DASH, which a module text cannot hold, as one character.
EnDash == "ndash"

IsDash(c) == c \in {"-", EnDash}

\* \s* from p: the first position at or after p that holds no whitespace.
RECURSIVE SkipSpaces(_, _)
SkipSpaces(s, p) == IF IsSpace(CharAt(s, p)) THEN SkipSpaces(s, p + 1) ELSE p

\* \d{1,2}[.:]\d{2} at p: the length of the match (4 or 5), 0 for none.
TimeLenAt(s, p) ==
    IF /\ IsDigitAt(s, p) /\ IsDigitAt(s, p + 1)
       /\ CharAt(s, p + 2) \in {".", ":"}
       /\ IsDigitAt(s, p + 3) /\ IsDigitAt(s, p + 4)
    THEN 5
    ELSE IF /\ IsDigitAt(s, p)
            /\ CharAt(s, p + 1) \in {".", ":"}
            /\ IsDigitAt(s, p + 2) /\ IsDigitAt(s, p + 3)
    THEN 4
    ELSE 0

\* \d{1,2} at p, greedy: the number of digits taken (0 for none).
DigitsLenAt(s, p) ==
    IF IsDigitAt(s, p) /\ IsDigitAt(s, p + 1) THEN 2
    ELSE IF IsDigitAt(s, p) THEN 1 ELSE 0

\* (\d{1,2}[.:]\d{2})\s*[-\u2013]\s*(\d{1,2}[.:]\d{2}) matched at p: its groups.
FullRangeAt(s, p) ==
    LET n1 == TimeLenAt(s, p)
        q == SkipSpaces(s, p + n1)
        r == SkipSpaces(s, q + 1)
        n2 == TimeLenAt(s, r)
    IN  IF n1 > 0 /\ IsDash(CharAt(s, q)) /\ n2 > 0
        THEN <<SubSeq(s, p, p + n1 - 1), SubSeq(s, r, r + n2 - 1)>>
        ELSE NoMatch

\* [Kk]l\.?\s*(\d{1,2})\s*[-\u2013]\s*(\d{1,2})(?!\d|[.:/]), in the order it
\* is matched.  Its end, (\d{1,2})(?!\d|[.:/]) at d, after the first group lo:
ShortRangeSecond(s, lo, d) ==
    LET n2 == DigitsLenAt(s, d)
    IN  IF /\ n2 > 0
           /\ ~IsDigitAt(s, d + n2)
           /\ CharAt(s, d + n2) \notin {".", ":", "/"}
        THEN <<lo, SubSeq(s, d, d + n2 - 1)>>
        ELSE NoMatch

\* [-\u2013]\s*(\d{1,2})(?!\d|[.:/]) at c.
ShortRangeDash(s, lo, c) ==
    IF IsDash(CharAt(s, c))
    THEN ShortRangeSecond(s, lo, SkipSpaces(s, c + 1))
    ELSE NoMatch

\* (\d{1,2})\s*[-\u2013]\s*(\d{1,2})(?!\d|[.:/]) at b.
ShortRangeFirst(s, b) ==
    LET n1 == DigitsLenAt(s, b)
    IN  IF n1 > 0
        THEN ShortRangeDash(s, SubSeq(s, b, b + n1 - 1), SkipSpaces(s, b + n1))
        ELSE NoMatch

\* The whole pattern matched at p: its groups.
ShortRangeAt(s, p) ==
    IF CharAt(s, p) \in {"K", "k"} /\ CharAt(s, p + 1) = "l"
    THEN ShortRangeFirst(s, SkipSpaces(s, IF CharAt(s, p + 2) = "."
                                         THEN p + 3 ELSE p + 2))
    ELSE NoMatch

\* (\d{1,2}[.:]\d{2})\s*,\s*(\d{1,2})\+ matched at p.
HintAt(s, p) ==
    LET n1 == TimeLenAt(s, p)
        q == SkipSpaces(s, p + n1)
        r == SkipSpaces(s, q + 1)
        n2 == DigitsLenAt(s, r)
    IN  IF n1 > 0 /\ CharAt(s, q) = "," /\ n2 > 0 /\ CharAt(s, r + n2) = "+"
        THEN <<SubSeq(s, p, p + n1 - 1), SubSeq(s, r, r + n2 - 1)>>
        ELSE NoMatch

\* (\d{1,2}[.:]\d{2}) matched at p.
SingleTimeAt(s, p) ==
    LET n1 == TimeLenAt(s, p)
    IN  IF n1 > 0 THEN <<SubSeq(s, p, p + n1 - 1)>> ELSE NoMatch

\* The leftmost of the positions ps.
Leftmost(ps) == CHOOSE p \in ps : \A q \in ps : p <= q

\* re.search of each pattern: the groups of its leftmost match in s.
SearchFullRange(s) ==
    LET ps == {p \in 1..Len(s) : FullRangeAt(s, p) # NoMatch}
    IN  IF ps = {} THEN NoMatch ELSE FullRangeAt(s, Leftmost(ps))

SearchShortRange(s) ==
    LET ps == {p \in 1..Len(s) : ShortRangeAt(s, p) # NoMatch}
    IN  IF ps = {} THEN NoMatch ELSE ShortRangeAt(s, Leftmost(ps))

SearchHint(s) ==
    LET ps == {p \in 1..Len(s) : HintAt(s, p) # NoMatch}
    IN  IF ps = {} THEN NoMatch ELSE HintAt(s, Leftmost(ps))

SearchSingleTime(s) ==
    LET ps == {p \in 1..Len(s) : SingleTimeAt(s, p) # NoMatch}
    IN  IF ps = {} THEN NoMatch ELSE SingleTimeAt(s, Leftmost(ps))

\* Variant: rule 4 (a single time) leaves all_day at its default, True.
ParseTimeRangeSingleAllDay(text) ==
    LET m1 == SearchFullRange(text)
        m2 == SearchShortRange(text)
        m3 == SearchHint(text)
        m4 == SearchSingleTime(text)
    IN  IF m1 # NoMatch
        THEN <<NormalizeTime(m1[1]), NormalizeTime(m1[2]), FALSE>>
        ELSE IF m2 # NoMatch
        THEN <<Format02d(IntOf(m2[1])) \o <<":", "0", "0">>,
               Format02d(IntOf(m2[2])) \o <<":", "0", "0">>, FALSE>>
        ELSE IF m3 # NoMatch
        THEN <<NormalizeTime(m3[1]),
               Format02d(IntOf(m3[2])) \o <<":", "0", "0">>, FALSE>>
        ELSE IF m4 # NoMatch
        THEN <<NormalizeTime(m4[1]), None, TRUE>>
        ELSE <<None, None, TRUE>>

\* Variant: the hint rule tried before the full range.
ParseTimeRangeHintFirst(text) ==
    LET m1 == SearchFullRange(text)
        m2 == SearchShortRange(text)
        m3 == SearchHint(text)
        m4 == SearchSingleTime(text)
    IN  IF m3 # NoMatch
        THEN <<NormalizeTime(m3[1]),
               Format02d(IntOf(m3[2])) \o <<":", "0", "0">>, FALSE>>
        ELSE IF m1 # NoMatch
        THEN <<NormalizeTime(m1[1]), NormalizeTime(m1[2]), FALSE>>
        ELSE IF m2 # NoMatch
        THEN <<Format02d(IntOf(m2[1])) \o <<":", "0", "0">>,
               Format02d(IntOf(m2[2])) \o <<":", "0", "0">>, FALSE>>
        ELSE IF m4 # NoMatch
        THEN <<NormalizeTime(m4[1]), None, FALSE>>
        ELSE <<None, None, TRUE>>

\* _parse_time_range: <<start_time, end_time, all_day>>.
ParseTimeRange(text) ==
    LET m1 == SearchFullRange(text)
        m2 == SearchShortRange(text)
        m3 == SearchHint(text)
        m4 == SearchSingleTime(text)
    IN  IF m1 # NoMatch
        THEN <<NormalizeTime(m1[1]), NormalizeTime(m1[2]), FALSE>>
        ELSE IF m2 # NoMatch
        THEN <<Format02d(IntOf(m2[1])) \o <<":", "0", "0">>,
               Format02d(IntOf(m2[2])) \o <<":", "0", "0">>, FALSE>>
        ELSE IF m3 # NoMatch
        THEN <<NormalizeTime(m3[1]),
               Format02d(IntOf(m3[2])) \o <<":", "0", "0">>, FALSE>>
        ELSE IF m4 # NoMatch
        THEN <<NormalizeTime(m4[1]), None, FALSE>>
        ELSE <<None, None, TRUE>>

\* ------------------------------------------------------------------------
\* Strings of the extractor
\* ------------------------------------------------------------------------

UpperCase == <<"A", "B", "C", "D", "E", "F", "G", "H", "I", "J", "K", "L", "M",
               "N", "O", "P", "Q", "R", "S", "T", "U", "V", "W", "X", "Y", "Z">>

LowerCase == <<"a", "b", "c", "d", "e", "f", "g", "h", "i", "j", "k", "l", "m",
               "n", "o", "p", "q", "r", "s", "t", "u", "v", "w", "x", "y", "z">>

\* str.casefold() on the letters A..Z; every other character is kept.
CasefoldChar(c) ==
    IF \E k \in 1..26 : UpperCase[k] = c
    THEN LowerCase[CHOOSE k \in 1..26 : UpperCase[k] = c]
    ELSE c

Casefold(s) == [k \in 1..Len(s) |-> CasefoldChar(s[k])]

\* sub in s
Contains(s, sub) ==
    \E k \in 0..(Len(s) - Len(sub)) : SubSeq(s, k + 1, k + Len(sub)) = sub

\* s.startswith(prefix)
StartsWith(s, prefix) ==
    Len(s) >= Len(prefix) /\ SubSeq(s, 1, Len(prefix)) = prefix

BASE_URL == <<"h", "t", "t", "p", "s", ":", "/", "/", "k", "r", "o", "g", "o", "c", "o", ".", "s", "e">>

\* urljoin(base, url) for a base without a path and a url that begins with
\* "/": a url that begins with "//" names its own host and takes only the
\* scheme of the base; any other replaces the (empty) path of the base.
UrlJoin(base, url) ==
    IF StartsWith(url, <<"/", "/">>)
    THEN SubSeq(base, 1, ColonIndex(base)) \o url
    ELSE base \o url

\* ------------------------------------------------------------------------
\* KrogocoIcs.__init__
\* ------------------------------------------------------------------------

\* self.blacklist: the entries, each case-folded.
StoredBlacklist(blacklist_) == {Casefold(b) : b \in blacklist_}

\* ------------------------------------------------------------------------
\* KrogocoIcs.scrape_events: the steps of the loop body
\* ------------------------------------------------------------------------

\* Variant: a smaller-or-equal month rolls the year over.
YearRolloverOnEqual(prev_month_, mm) == prev_month_ # NoMonth /\ mm <= prev_month_

\* A month number smaller than the previous one: the year has rolled over.
YearRollover(prev_month_, mm) == prev_month_ # NoMonth /\ mm < prev_month_

\* Variant: an impossible day or month is let through.
DateRaisesNever(y, m, d) == FALSE

\* date(y, m, d) raises ValueError.
DateRaises(y, m, d) == ~ValidDate(y, m, d)

IsPast(current_date_, today_) == DateLT(current_date_, today_)

BeyondHorizon(current_date_, horizon_) == DateLT(horizon_, current_date_)

\* Variant: every entry has to occur in the title.
IsBlacklistedAll(title, blacklist_) ==
    \A b \in blacklist_ : Contains(Casefold(title), b)

\* any(b in title.casefold() for b in self.blacklist)
IsBlacklisted(title, blacklist_) ==
    \E b \in blacklist_ : Contains(Casefold(title), b)

\* The link target as the event carries it.
ResolveUrl(url) ==
    IF StartsWith(url, <<"/">>) THEN UrlJoin(BASE_URL, url) ELSE url

\* Variant: nothing counts as seen.
IsDuplicateNever(key, seen_) == FALSE

IsDuplicate(key, seen_) == key \in seen_

\* CalendarEvent(date, title, url, all_day, start_time, end_time) from the
\* parser's result for the title.
MakeEvent(current_date_, title, url) ==
    LET r == ParseTimeRange(title)
    IN  [date |-> current_date_, title |-> title, url |-> url,
         all_day |-> r[3], start_time |-> r[1], end_time |-> r[2]]

\* One pass of the loop body over heading h, from the locals loc.  A
\* heading is [m |-> the groups <<dd, mm>> of the DD/MM match in its text or
\* NoMatch, a |-> <<text, href>> of its link or NoMatch].  The result holds
\* the locals after the pass and how the pass ended: "next" (the loop goes
\* on), "break" or "raise" (ValueError).
LoopBody(loc, h, today_, horizon_, blacklist_) ==
    IF h.m # NoMatch
    THEN LET dd == IntOf(h.m[1])
             mm == IntOf(h.m[2])
             year == IF YearRollover(loc.prev_month, mm)
                     THEN loc.inferred_year + 1 ELSE loc.inferred_year
             upd == [loc EXCEPT !.inferred_year = year, !.prev_month = mm]
         IN  IF DateRaises(year, mm, dd)
             THEN [upd EXCEPT !.ctl = "raise"]
             ELSE [upd EXCEPT !.current_date = <<year, mm, dd>>]
    ELSE IF h.a # NoMatch /\ loc.current_date # NoDate
    THEN IF IsPast(loc.current_date, today_) THEN loc
         ELSE IF BeyondHorizon(loc.current_date, horizon_)
         THEN [loc EXCEPT !.ctl = "break"]
         ELSE LET title == h.a[1]
                  url == ResolveUrl(h.a[2])
                  key == <<loc.current_date, title, url>>
              IN  IF IsBlacklisted(title, blacklist_) THEN loc
                  ELSE IF IsDuplicate(key, loc.seen) THEN loc
                  ELSE [loc EXCEPT
                           !.seen = loc.seen \cup {key},
                           !.events = Append(loc.events,
                                         MakeEvent(loc.current_date, title, url))]
    ELSE loc

\* The locals when the loop is entered.
InitialLocals(today_) ==
    [inferred_year |-> today_[1], prev_month |-> NoMonth,
     current_date |-> NoDate, events |-> <<>>, seen |-> {}, ctl |-> "next"]

\* The loop from heading k on: the locals when it ends ("next": the
\* headings are used up).
RECURSIVE RunLoop(_, _, _, _, _, _)
RunLoop(loc, nodes, k, today_, horizon_, blacklist_) ==
    IF k > Len(nodes) THEN loc
    ELSE LET r == LoopBody(loc, nodes[k], today_, horizon_, blacklist_)
         IN  IF r.ctl # "next" THEN r
             ELSE RunLoop(r, nodes, k + 1, today_, horizon_, blacklist_)

\* scrape_events as a function of the headings, the reference date and the
\* configuration: the locals at its end (events is returned unless ctl is
\* "raise").
ScrapeEvents(nodes, today_, months_, blacklist_) ==
    RunLoop(InitialLocals(today_), nodes, 1, today_,
            LastDayOfMonth(today_, months_), StoredBlacklist(blacklist_))

\* ------------------------------------------------------------------------
\* KrogocoIcs._build_calendar
\* ------------------------------------------------------------------------

\* h, m = map(int, t.split(":"))
SplitHM(t) ==
    LET c == ColonIndex(t)
    IN  <<IntOf(SubSeq(t, 1, c - 1)), IntOf(SubSeq(t, c + 1, Len(t)))>>

\* datetime(y, m, d, h, mi) raises ValueError.
DateTimeRaises(h, mi) == ~(h \in 0..23 /\ mi \in 0..59)

\* a <= b for datetimes of the same day.
ClockLE(a, b) == a[4] < b[4] \/ (a[4] = b[4] /\ a[5] <= b[5])

\* The VEVENT of one event: [ok |-> FALSE] when a datetime cannot be built.
BuildEvent(ev) ==
    IF ev.all_day
    THEN [ok |-> TRUE, summary |-> ev.title, url |-> ev.url,
          dtstart |-> ev.date, dtend |-> PlusOneDay(ev.date)]
    ELSE LET s == SplitHM(ev.start_time)
             dtstart == ev.date \o s
         IN  IF DateTimeRaises(s[1], s[2]) THEN [ok |-> FALSE]
             ELSE IF ev.end_time # None
             THEN LET e == SplitHM(ev.end_time)
                      dtend == ev.date \o e
                  IN  IF DateTimeRaises(e[1], e[2]) THEN [ok |-> FALSE]
                      ELSE [ok |-> TRUE, summary |-> ev.title, url |-> ev.url,
                            dtstart |-> dtstart,
                            dtend |-> IF ClockLE(dtend, dtstart)
                                      THEN PlusOneDay(ev.date) \o e
                                      ELSE dtend]
             ELSE [ok |-> TRUE, summary |-> ev.title, url |-> ev.url,
                   dtstart |-> dtstart,
                   dtend |-> PlusOneDay(ev.date) \o <<0, 0>>]

\* The components added to the calendar, event by event, up to and
\* including the first that cannot be built.
RECURSIVE BuildComponents(_)
BuildComponents(evs) ==
    IF evs = <<>> THEN <<>>
    ELSE LET c == BuildEvent(Head(evs))
         IN  IF c.ok THEN <<c>> \o BuildComponents(Tail(evs)) ELSE <<c>>

\* ------------------------------------------------------------------------
\* State
\* ------------------------------------------------------------------------

VARIABLES
    h3s,            \* the headings of the fetched page, in document order
    today,          \* date.today() of the scrape
    months,         \* self.months
    blacklist_arg,  \* the blacklist the scraper was constructed with
    blacklist,      \* self.blacklist
    pc,             \* "idle", "scan", "returned", "raised", "built",
                    \* "build_raised"; "parser" in the parser's specification
    pos,            \* the number of headings the loop has taken
    horizon,
    inferred_year,
    prev_month,
    current_date,
    events,
    seen,
    cal,            \* the components of the calendar being built
    text,           \* the title handed to _parse_time_range
    parsed          \* its result, None before the call

scan_vars == <<h3s, today, months, blacklist_arg, blacklist, pc, pos, horizon,
               inferred_year, prev_month, current_date, events, seen, cal>>

vars == <<scan_vars, text, parsed>>

\* ------------------------------------------------------------------------
\* The inputs
\* ------------------------------------------------------------------------

DateLine(dd, mm) == [m |-> <<dd, mm>>, a |-> NoMatch]

EventLine(title, href) == [m |-> NoMatch, a |-> <<title, href>>]

TitleAW == <<"A", "W", " ", "2", "2", ".", "0", "0", "-", "1", ".", "0", "0">>

TitleQuiz == <<"Q", "u", "i", "z">>

TitleLate == <<"a", "w", " ", "1", "8", ".", "0", "0", "-", "2", "4", ".", "0", "0">>

HrefRooted == <<"/", "e">>

HrefBare == <<"e">>

HrefAbsolute == BASE_URL \o <<"/", "e">>

Headings == {
    DateLine(<<"1", "0">>, <<"0", "2">>),
    DateLine(<<"0", "5">>, <<"0", "2">>),
    DateLine(<<"2", "0">>, <<"1", "2">>),
    DateLine(<<"2", "9">>, <<"0", "2">>),
    EventLine(TitleAW, HrefRooted),
    EventLine(TitleQuiz, HrefBare),
    EventLine(TitleLate, HrefAbsolute) }

RECURSIVE HeadingSeqs(_)
HeadingSeqs(n) ==
    IF n = 0 THEN {<<>>}
    ELSE LET shorter == HeadingSeqs(n - 1)
         IN  shorter \cup {Append(q, h) : q \in shorter, h \in Headings}

Todays == {<<2025, 2, 1>>, <<2023, 12, 15>>}

MonthsAhead == {0, 2}

BlacklistArgs == {{}, {<<"x">>, <<"A", "w">>}}

\* The pieces titles are made of.
TitleTokens == {
    <<"K", "l", ".">>, <<"k", "l">>, <<"7">>, <<"1", "2">>,
    <<"9", ".", "0", "0">>, <<"2", "2", ":", "3", "0">>,
    <<"-">>, <<",", " ">>, <<"+">>, <<"/">> }

RECURSIVE TitlesOf(_)
TitlesOf(n) ==
    IF n = 0 THEN {<<>>}
    ELSE LET shorter == TitlesOf(n - 1)
         IN  shorter \cup {t \o k : t \in shorter, k \in TitleTokens}

Titles == TitlesOf(MaxTokens)

\* Titles of the calendar page and of the parser's documentation, and titles
\* in which two rules match.  "aring" stands for U+00E5, one character.
TitleShortRange == <<"K", "l", ".", "1", "2", "-", "1", "7">>

TitleHint == <<"K", "l", ".", "2", "2", ".", "0", "0", ",", " ", "2", "3", "+">>

TitleSingle == <<"F", "r", "aring", "n", " ", "K", "l", ".", "1", "7", ".", "0", "0">>

TitleNoTime == <<"S", "t", "u", "d", "e", "n", "t", "f", "e", "s", "t">>

TitleRangeAndHint == <<"1", "9", ":", "0", "0", "-", "2", "3", ":", "0", "0", ",", " ", "1", "8", "+">>

TitleShortRangeAndHint == <<"2", "2", ".", "0", "0", ",", " ", "2", "3", "+", " ", "K", "l", ".", "1", "2", "-", "1", "7">>

TitleSingleAndShortRange == <<"9", ".", "0", "0", " ", "K", "l", ".", "1", "2", "-", "1", "7">>

ExampleTitles == {TitleShortRange, TitleHint, TitleSingle, TitleNoTime,
                  TitleRangeAndHint, TitleShortRangeAndHint,
                  TitleSingleAndShortRange}

\* ------------------------------------------------------------------------
\* The extractor: a constructed scraper, one scrape, one calendar
\* ------------------------------------------------------------------------

Init ==
    /\ h3s \in HeadingSeqs(MaxNodes)
    /\ today \in Todays
    /\ months \in MonthsAhead
    /\ blacklist_arg \in BlacklistArgs
    /\ blacklist = StoredBlacklist(blacklist_arg)
    /\ pc = "idle"
    /\ pos = 0
    /\ horizon = NoDate
    /\ inferred_year = 0
    /\ prev_month = NoMonth
    /\ current_date = NoDate
    /\ events = <<>>
    /\ seen = {}
    /\ cal = <<>>
    /\ text = <<>>
    /\ parsed = None

\* scrape_events up to the loop: the page is fetched and parsed, the
\* horizon computed, the running context set up.
Start ==
    /\ pc = "idle"
    /\ pc' = "scan"
    /\ horizon' = LastDayOfMonth(today, months)
    /\ inferred_year' = today[1]
    /\ prev_month' = NoMonth
    /\ current_date' = NoDate
    /\ events' = <<>>
    /\ seen' = {}
    /\ UNCHANGED <<h3s, today, months, blacklist_arg, blacklist, pos, cal,
                   text, parsed>>

Locals ==
    [inferred_year |-> inferred_year, prev_month |-> prev_month,
     current_date |-> current_date, events |-> events, seen |-> seen,
     ctl |-> "next"]

\* One pass of the loop, over the next heading.  A break ends the loop and
\* events is returned; a ValueError leaves scrape_events.
ScanStep ==
    /\ pc = "scan"
    /\ pos < Len(h3s)
    /\ LET r == LoopBody(Locals, h3s[pos + 1], today, horizon, blacklist)
       IN  /\ inferred_year' = r.inferred_year
           /\ prev_month' = r.prev_month
           /\ current_date' = r.current_date
           /\ events' = r.events
           /\ seen' = r.seen
           /\ pc' = CASE r.ctl = "raise" -> "raised"
                      [] r.ctl = "break" -> "returned"
                      [] OTHER -> "scan"
    /\ pos' = pos + 1
    /\ UNCHANGED <<h3s, today, months, blacklist_arg, blacklist, horizon, cal,
                   text, parsed>>

\* The headings are used up: return events.
Return ==
    /\ pc = "scan"
    /\ pos = Len(h3s)
    /\ pc' = "returned"
    /\ UNCHANGED <<h3s, today, months, blacklist_arg, blacklist, pos, horizon,
                   inferred_year, prev_month, current_date, events, seen, cal,
                   text, parsed>>

\* _build_calendar over the events scrape_events returned.
BuildCalendar ==
    /\ pc = "returned"
    /\ cal' = BuildComponents(events)
    /\ pc' = IF \A k \in 1..Len(cal') : cal'[k].ok THEN "built"
             ELSE "build_raised"
    /\ UNCHANGED <<h3s, today, months, blacklist_arg, blacklist, pos, horizon,
                   inferred_year, prev_month, current_date, events, seen,
                   text, parsed>>

Next == Start \/ ScanStep \/ Return \/ BuildCalendar

Spec == Init /\ [][Next]_vars

\* ------------------------------------------------------------------------
\* The parser alone
\* ------------------------------------------------------------------------

ParserInit ==
    /\ text \in Titles \cup ExampleTitles
    /\ parsed = None
    /\ h3s = <<>>
    /\ today = <<2025, 2, 1>>
    /\ months = 0
    /\ blacklist_arg = {}
    /\ blacklist = {}
    /\ pc = "parser"
    /\ pos = 0
    /\ horizon = NoDate
    /\ inferred_year = 0
    /\ prev_month = NoMonth
    /\ current_date = NoDate
    /\ events = <<>>
    /\ seen = {}
    /\ cal = <<>>

\* One call of _parse_time_range(text).
Parse ==
    /\ pc = "parser"
    /\ parsed = None
    /\ parsed' = ParseTimeRange(text)
    /\ UNCHANGED <<scan_vars, text>>

ParserNext == Parse

ParserSpec == ParserInit /\ [][ParserNext]_vars

\* ------------------------------------------------------------------------
\* Notions the properties are stated in
\* ------------------------------------------------------------------------

\* scrape_events has returned its list.
Returned == pc \in {"returned", "built", "build_raised"}

\* The last calendar day of the month that lies k months after d's month.
HorizonOf(d, k) ==
    LET t == (d[2] - 1) + k
        y == d[1] + (t \div 12)
        m == (t % 12) + 1
    IN  <<y, m, DaysInMonth(y, m)>>

InWindow(d) == DateLE(today, d) /\ DateLE(d, HorizonOf(today, months))

EventKey(e) == <<e.date, e.title, e.url>>

EventKeys(evs) == {EventKey(evs[k]) : k \in 1..Len(evs)}

\* The heading the loop takes next is a link line (not a date line).
NextIsLink ==
    /\ pc = "scan" /\ pos < Len(h3s)
    /\ h3s[pos + 1].m = NoMatch /\ h3s[pos + 1].a # NoMatch

\* The number of places where a month is smaller than the one before it.
RECURSIVE Descents(_)
Descents(ms) ==
    IF Len(ms) < 2 THEN 0
    ELSE Descents(SubSeq(ms, 1, Len(ms) - 1))
           + (IF ms[Len(ms)] < ms[Len(ms) - 1] THEN 1 ELSE 0)

IsDateLine(h) == h.m # NoMatch

\* The months of the date headings among the first k headings.
RECURSIVE DateMonths(_)
DateMonths(k) ==
    IF k = 0 THEN <<>>
    ELSE IF IsDateLine(h3s[k])
    THEN Append(DateMonths(k - 1), IntOf(h3s[k].m[2]))
    ELSE DateMonths(k - 1)

\* The year the rollover rule gives the headings up to the k-th.
YearAt(k) == today[1] + Descents(DateMonths(k))

\* The k-th heading matches DD/MM and is no calendar date in its year.
Malformed(k) ==
    /\ IsDateLine(h3s[k])
    /\ ~ValidDate(YearAt(k), IntOf(h3s[k].m[2]), IntOf(h3s[k].m[1]))

\* The title, case-folded, contains an entry of the blacklist, case-folded.
TitleMatches(title) ==
    \E b \in blacklist_arg : Contains(Casefold(title), Casefold(b))

\* HH:MM, zero-padded, 00..23 and 00..59.
IsHHMM(t) ==
    /\ Len(t) = 5
    /\ t[1] \in Digit /\ t[2] \in Digit /\ t[3] = ":"
    /\ t[4] \in Digit /\ t[5] \in Digit
    /\ IntOf(SubSeq(t, 1, 2)) \in 0..23
    /\ IntOf(SubSeq(t, 4, 5)) \in 0..59

IsAbsoluteUrl(u) ==
    \/ StartsWith(u, <<"h", "t", "t", "p", "s", ":", "/", "/">>)
    \/ StartsWith(u, <<"h", "t", "t", "p", ":", "/", "/">>)

\* Minutes from the start of day 0 to a datetime.
MinuteOf(dt) == ToOrdinal(<<dt[1], dt[2], dt[3]>>) * 1440 + dt[4] * 60 + dt[5]

\* ------------------------------------------------------------------------
\* C1
\* ------------------------------------------------------------------------

\* C1: every event scrape_events returns has today <= date <= horizon, the
\* horizon being the last calendar day of the month monthsAhead months after
\* today's month (with year carry).
C1_DateWindow ==
    Returned =>
        /\ horizon = HorizonOf(today, months)
        /\ \A k \in 1..Len(events) :
              /\ DateLE(today, events[k].date)
              /\ DateLE(events[k].date, HorizonOf(today, months))

\* today = 2025-02-01 and monthsAhead = 2 give the horizon 2025-04-30; an
\* event in the window was returned and the scan stopped at a link of
\* 2025-12-20.
C1_Witness ==
    /\ pc = "returned"
    /\ today = <<2025, 2, 1>> /\ months = 2 /\ horizon = <<2025, 4, 30>>
    /\ Len(h3s) = 4 /\ pos = 4
    /\ h3s[3] = DateLine(<<"2", "0">>, <<"1", "2">>)
    /\ h3s[4].a # NoMatch
    /\ Len(events) = 1

\* ------------------------------------------------------------------------
\* C2
\* ------------------------------------------------------------------------

\* C2: the parser's result has all_day true if and only if start_time and
\* end_time are both absent; a result that is not all-day has a start_time,
\* and one with an end_time is not all-day.
C2_AllDayIffNoTimes ==
    parsed # None =>
        /\ parsed[3] <=> (parsed[1] = None /\ parsed[2] = None)
        /\ ~parsed[3] => parsed[1] # None
        /\ parsed[2] # None => ~parsed[3]

\* A title with a single time was parsed: a start, no end, not all-day.
C2_Witness ==
    /\ parsed # None
    /\ parsed[1] # None /\ parsed[2] = None /\ ~parsed[3]

\* ------------------------------------------------------------------------
\* C3
\* ------------------------------------------------------------------------

\* C3: the list never holds two events with the same (date, title, resolved
\* url); a link line in the window and off the blacklist whose triple is
\* already in the list adds nothing, and one whose triple is new is appended.
C3_FirstOfEachTriple ==
    [][ /\ \A a, b \in 1..Len(events') :
              a # b => EventKey(events'[a]) # EventKey(events'[b])
        /\ (NextIsLink /\ current_date # NoDate /\ InWindow(current_date)
              /\ ~TitleMatches(h3s[pos + 1].a[1]))
           => LET key == <<current_date, h3s[pos + 1].a[1],
                           ResolveUrl(h3s[pos + 1].a[2])>>
              IN  IF key \in EventKeys(events)
                  THEN events' = events
                  ELSE /\ Len(events') = Len(events) + 1
                       /\ SubSeq(events', 1, Len(events)) = events
                       /\ EventKey(events'[Len(events')]) = key
      ]_vars

\* The same link line twice under one date: one event was returned.
C3_Witness ==
    /\ pc = "returned"
    /\ Len(h3s) = 3 /\ pos = 3
    /\ IsDateLine(h3s[1])
    /\ h3s[2].a # NoMatch /\ h3s[3] = h3s[2]
    /\ Len(events) = 1

\* ------------------------------------------------------------------------
\* C4
\* ------------------------------------------------------------------------

\* C4: the dates of the returned events are non-decreasing along the list.
C4_Chronological ==
    Returned =>
        \A a, b \in 1..Len(events) :
            a < b => DateLE(events[a].date, events[b].date)

\* ------------------------------------------------------------------------
\* C5
\* ------------------------------------------------------------------------

\* C5: the inferred year is today's year plus the number of date headings
\* taken so far whose month is smaller than the month of the date heading
\* before them, and an event carries the inferred year of the date heading
\* it stands under.
C5_YearRollover ==
    [][ pc' # "idle" =>
          /\ inferred_year' = YearAt(pos')
          /\ Len(events') > Len(events) =>
                events'[Len(events')].date[1] = YearAt(pos')
      ]_vars

\* Date headings with months 12 and 2 and an event under each: the first
\* carries today's year, the second the next.
C5_Witness ==
    /\ pc = "returned"
    /\ today = <<2023, 12, 15>>
    /\ DateMonths(Len(h3s)) = <<12, 2>>
    /\ Len(events) = 2
    /\ events[1].date[1] = 2023 /\ events[1].date[2] = 12
    /\ events[2].date[1] = 2024 /\ events[2].date[2] = 2

\* ------------------------------------------------------------------------
\* C6
\* ------------------------------------------------------------------------

\* C6: a link line in the date window is left out of the list if and only
\* if its title, case-folded, contains a blacklist entry, case-folded; when
\* no title matches the blacklist the list returned is the one a scrape
\* without blacklist returns.
C6_Blacklist ==
    [][ /\ (NextIsLink /\ current_date # NoDate /\ InWindow(current_date))
           => LET key == <<current_date, h3s[pos + 1].a[1],
                           ResolveUrl(h3s[pos + 1].a[2])>>
              IN  (key \notin EventKeys(events'))
                     <=> TitleMatches(h3s[pos + 1].a[1])
        /\ (pc = "scan" /\ pc' = "returned"
              /\ \A k \in 1..Len(h3s) :
                    h3s[k].a # NoMatch => ~TitleMatches(h3s[k].a[1]))
           => events' = ScrapeEvents(h3s, today, months, {}).events
      ]_vars

\* Under the blacklist {"x", "Aw"} the title "AW 22.00-1.00" was left out
\* and the title "Quiz" was returned.
C6_Witness ==
    /\ pc = "returned"
    /\ blacklist_arg = {<<"x">>, <<"A", "w">>}
    /\ Len(h3s) = 3 /\ pos = 3
    /\ IsDateLine(h3s[1])
    /\ h3s[2].a # NoMatch /\ h3s[2].a[1] = TitleAW
    /\ h3s[3].a # NoMatch /\ h3s[3].a[1] = TitleQuiz
    /\ Len(events) = 1 /\ events[1].title = TitleQuiz

\* ------------------------------------------------------------------------
\* C7
\* ------------------------------------------------------------------------

\* C7 as stated: when any heading of the page matches DD/MM and is no
\* calendar date in its inferred year, scrape_events returns no list.
C7_AnyMalformedHeadingFails ==
    Returned => \A k \in 1..Len(h3s) : ~Malformed(k)

\* C7, amended: when the scan reaches a heading that matches DD/MM and is
\* no calendar date in its inferred year, scrape_events fails there and
\* returns no list; it fails for no other reason.
C7_ReachedMalformedHeadingFails ==
    /\ \A k \in 1..pos : Malformed(k) => (pc = "raised" /\ k = pos)
    /\ pc = "raised" => (pos >= 1 /\ Malformed(pos))

\* The scan failed at a malformed heading with an event already collected.
C7_Witness ==
    /\ pc = "raised"
    /\ Malformed(pos)
    /\ Len(events) >= 1

\* ------------------------------------------------------------------------
\* C8
\* ------------------------------------------------------------------------

\* C8: each start_time and end_time the parser returns is absent or a
\* zero-padded HH:MM string with the hour in 00..23 and the minute in 00..59.
C8_ZeroPaddedTimes ==
    parsed # None =>
        \A j \in {1, 2} : parsed[j] # None => IsHHMM(parsed[j])

\* ------------------------------------------------------------------------
\* C9
\* ------------------------------------------------------------------------

\* C9: the url of every event is absolute.
C9_AbsoluteUrls ==
    \A k \in 1..Len(events) : IsAbsoluteUrl(events[k].url)

\* ------------------------------------------------------------------------
\* C10
\* ------------------------------------------------------------------------

\* C10: once the calendar is built, every event with both times has its
\* entry, starting at start_time on the event's date and ending at end_time
\* on that date if end_time is later than start_time and on the next day
\* otherwise; the end is after the start by at most 24 hours.
C10_TimedEntries ==
    pc \in {"built", "build_raised"} =>
        \A k \in 1..Len(events) :
            (events[k].start_time # None /\ events[k].end_time # None) =>
                /\ k <= Len(cal)
                /\ cal[k].ok
                /\ LET s == SplitHM(events[k].start_time)
                       e == SplitHM(events[k].end_time)
                       later == s[1] < e[1] \/ (s[1] = e[1] /\ s[2] < e[2])
                   IN  /\ cal[k].dtstart = events[k].date \o s
                       /\ cal[k].dtend =
                            (IF later THEN events[k].date
                             ELSE PlusOneDay(events[k].date)) \o e
                       /\ MinuteOf(cal[k].dtend) - MinuteOf(cal[k].dtstart)
                            \in 1..1440

\* ------------------------------------------------------------------------
\* C11
\* ------------------------------------------------------------------------

\* A rule's pattern occurs somewhere in the title.
FullRangeOccurs == \E p \in 1..Len(text) : FullRangeAt(text, p) # NoMatch

ShortRangeOccurs == \E p \in 1..Len(text) : ShortRangeAt(text, p) # NoMatch

HintOccurs == \E p \in 1..Len(text) : HintAt(text, p) # NoMatch

SingleTimeOccurs == \E p \in 1..Len(text) : TimeLenAt(text, p) > 0

\* hh as HH:00.
HourOnly(hh) == Format02d(IntOf(hh)) \o <<":", "0", "0">>

\* What the rule of highest priority that occurs in the title gives.
ResultByPriority ==
    IF FullRangeOccurs
    THEN <<NormalizeTime(SearchFullRange(text)[1]),
           NormalizeTime(SearchFullRange(text)[2]), FALSE>>
    ELSE IF ShortRangeOccurs
    THEN <<HourOnly(SearchShortRange(text)[1]),
           HourOnly(SearchShortRange(text)[2]), FALSE>>
    ELSE IF HintOccurs
    THEN <<NormalizeTime(SearchHint(text)[1]),
           HourOnly(SearchHint(text)[2]), FALSE>>
    ELSE IF SingleTimeOccurs
    THEN <<NormalizeTime(SearchSingleTime(text)[1]), None, FALSE>>
    ELSE <<None, None, TRUE>>

\* C11: the parser's result is that of the first of the rules full range,
\* Kl short hour range, time with ", NN+" hint, single time that occurs
\* anywhere in the title, and (absent, absent, all-day) when none occurs; a
\* title with a full range and an unrelated "NN+" hint yields the full range,
\* "Kl.12-17" yields (12:00, 17:00), "Kl.22.00, 23+" yields (22:00, 23:00)
\* and "Fran Kl.17.00" yields (17:00, absent).
C11_RulePriority ==
    parsed # None =>
        /\ parsed = ResultByPriority
        /\ text = TitleRangeAndHint =>
              parsed = <<<<"1", "9", ":", "0", "0">>, <<"2", "3", ":", "0", "0">>, FALSE>>
        /\ text = TitleShortRange =>
              parsed = <<<<"1", "2", ":", "0", "0">>, <<"1", "7", ":", "0", "0">>, FALSE>>
        /\ text = TitleHint =>
              parsed = <<<<"2", "2", ":", "0", "0">>, <<"2", "3", ":", "0", "0">>, FALSE>>
        /\ text = TitleSingle =>
              parsed = <<<<"1", "7", ":", "0", "0">>, None, FALSE>>

\* The title "19:00-23:00, 18+", in which the full range and the hint rule
\* both match, was parsed to the full range.
C11_Witness ==
    /\ text = TitleRangeAndHint
    /\ FullRangeOccurs /\ HintOccurs
    /\ parsed = <<<<"1", "9", ":", "0", "0">>, <<"2", "3", ":", "0", "0">>, FALSE>>

====
